---- MODULE Spec2Model ----
(***************************************************************************)
(* A model of the IBKR client session (src/src/ibkr_mcp/ibkr_client.py)   *)
(* and of the tool handlers that call it (src/src/ibkr_mcp/server.py).    *)
(*                                                                         *)
(* The program runs on one asyncio event loop: a coroutine runs without   *)
(* interruption from one await that suspends to the next.  Every action   *)
(* below is one such uninterrupted piece of a coroutine; `running` names  *)
(* the coroutine that holds the event loop between two of its pieces.     *)
(***************************************************************************)
EXTENDS Integers, Sequences, FiniteSets, TLC

\* ------------------------------------------------------------------ bounds

\* IB() instances one behaviour may create (handle 0 is the constructor's).
MaxHandles == 5

\* Prices and sizes are fixed-point numbers: the integer v stands for v / Scale.
Scale == 2

\* Open trades the gateway may report to cancel_order, and their order ids.
MaxOpen == 3

MaxOrderId == 2

\* Entries of the account-value list the gateway may report.
MaxValues == 3

\* Fills of one trade.
MaxFills == 3

\* Strikes of an option chain are taken from 1 .. MaxStrike, the window asked
\* for from 0 .. MaxWindow.
MaxStrike == 6

MaxWindow == 6

\* The largest order quantity.
MaxQuantity == 2

\* The number of expiration dates, and of parameter sets of one symbol.
MaxExpiry == 3

MaxChains == 2

\* ------------------------------------------------------- program constants

max_reconnect_attempts == 3

\* float('nan'), the value of a ticker field the gateway has not filled in.
NaN == -999

\* Python's None in a numeric position.
None == -998

\* config.account is None / self.account before any connect.
NoAccount == "None"

\* ------------------------------------------------------------------ callers

Lifespan == "lifespan"

Tasks == {"t1", "t2"}

Callers == {Lifespan} \cup Tasks

NoOne == "none"

\* The tools of server.py that go through ensure_connected().
GuardedOps ==
    {"get_portfolio", "get_account_summary", "get_stock_price", "get_option_price",
     "get_orders", "get_trades", "get_executions", "cancel_order",
     "get_option_chain", "get_option_expirations"}

StatusOp == "get_connection_status"

Ops == GuardedOps \cup {StatusOp}

PriceOps == {"get_stock_price", "get_option_price"}

\* ------------------------------------------------------------ environment

ConfigAccounts == {NoAccount, "", "U9"}

ManagedLists == {<< >>, <<"DU1">>, <<"DU2", "DU1">>}

Handles == 0 .. MaxHandles

\* Tickers the gateway may report: a liquid one; one with no data but the
\* previous close (market closed); one whose day volume is below one unit.
SampleTickers ==
    {[marketPrice |-> Scale + 1, last |-> Scale + 1, close |-> Scale,
      bid |-> Scale, ask |-> Scale + 1, volume |-> Scale + 1],
     [marketPrice |-> NaN, last |-> NaN, close |-> Scale,
      bid |-> -Scale, ask |-> -Scale, volume |-> 0],
     [marketPrice |-> Scale, last |-> Scale, close |-> Scale,
      bid |-> NaN, ask |-> NaN, volume |-> 1]}

VARIABLES
    config_account,      \* self.config.account
    managed,             \* what the gateway answers to managedAccounts()
    gwUp,                \* the gateway accepts connections
    ticker,              \* the ticker the gateway reports for a contract
    ib,                  \* self.ib: the current transport handle
    nextIB,              \* number of IB() instances created so far
    open,                \* handles whose transport is connected
    subs,                \* open market-data subscriptions, <<handle, contract>>
    connected,           \* self.connected
    account,             \* self.account
    reconnect_attempts,  \* self._reconnect_attempts
    running,             \* the coroutine that holds the event loop
    pc,                  \* each caller's position
    op,                  \* the tool a task is serving
    conn,                \* the handle a caller's connectAsync was called on
    made,                \* connect attempts of the task's ensure_connected call
    succ,                \* ... of which succeeded
    alive0,              \* is_connection_alive() as that call found it
    ret,                 \* what that call returned
    cret,                \* what the caller's last connect() did
    called,              \* the handler called ensure_connected
    touched,             \* the handler read client state or invoked an accessor
    invoked,             \* the handler invoked the client's accessor
    result,              \* what the handler returned
    quote,               \* the MarketData the accessor returned
    arg,                 \* what the gateway answered to a direct client call
    out                  \* what a direct client call returned or raised

envVars == <<config_account, managed, gwUp, ticker>>

clientVars == <<ib, nextIB, open, subs, connected, account, reconnect_attempts>>

callVars == <<conn, made, succ, alive0, ret, cret>>

handlerVars == <<op, called, touched, invoked, result, quote>>

dataVars == <<arg, out>>

vars == <<envVars, clientVars, running, pc, callVars, handlerVars, dataVars>>

\* ---------------------------------------------------------- Python values

\* bool(x) of a number or None: nan is true.
Truthy(x) == x # 0 /\ x # None

\* a or b
PyOr(a, b) == IF Truthy(a) THEN a ELSE b

\* x > 0: every comparison with nan is false.
GtZero(x) == x # NaN /\ x # None /\ x > 0

\* int(x) of a finite float: truncation toward zero.
PyInt(x) == IF x >= 0 THEN (x \div Scale) * Scale ELSE -(((-x) \div Scale) * Scale)

NoQuote == [price |-> None, bid |-> None, ask |-> None, volume |-> None]

\* No direct call in progress: nothing asked of the gateway, nothing returned.
NoArg == [kind |-> "none"]

NoOut == [kind |-> "none", value |-> "none", sent |-> << >>]

\* ------------------------------------------------------------ the client

\* self.ib.managedAccounts() on handle h, the open transports being o.
managedAccounts(h, o) == IF h \in o THEN managed ELSE << >>

\* What connectAsync can do on a handle: True for connected, False for raised.
TransportOutcomes(h) == {gwUp}

\* An account detection that prefers the gateway's list to the configuration.
update_account_info_gateway_first(o) ==
    LET accounts == managedAccounts(ib, o)
    IN  IF accounts # << >>
        THEN [raised |-> FALSE, account |-> accounts[1]]
        ELSE IF config_account # NoAccount /\ config_account # ""
             THEN [raised |-> FALSE, account |-> config_account]
             ELSE [raised |-> TRUE, account |-> account]

\* _update_account_info(), the open transports being o.
update_account_info(o) ==
    IF config_account # NoAccount /\ config_account # ""
    THEN [raised |-> FALSE, account |-> config_account]
    ELSE LET accounts == managedAccounts(ib, o)
         IN  IF accounts # << >>
             THEN [raised |-> FALSE, account |-> accounts[1]]
             ELSE [raised |-> TRUE, account |-> account]

\* An except clause that forgets to clear the flag.
connect_except_keeps_flag(flag) ==
    [ret |-> "false", connected |-> flag, account |-> account]

\* connect()'s except clause, entered with self.connected = flag: lines 52-55.
connect_except(flag) == [ret |-> "false", connected |-> FALSE, account |-> account]

\* connect() from the completion of connectAsync on: transportOk says whether
\* connectAsync returned, o is the set of open transports after it.
connect(transportOk, o) ==
    IF ~transportOk
    THEN connect_except(connected)
    ELSE LET u == update_account_info(o)
         IN  IF u.raised
             THEN connect_except(TRUE)
             ELSE [ret |-> "true", connected |-> TRUE, account |-> u.account]

\* self.ib.isConnected() on handle h: ib_async reads a flag, it does not raise.
isConnected(h) == IF h \in open THEN "true" ELSE "false"

\* A liveness probe that lets the transport's error through.
is_connection_alive_of_propagating(p) ==
    IF ~connected THEN "false" ELSE p

\* is_connection_alive(), the transport's probe answering p: lines 82-90.
is_connection_alive_of(p) ==
    IF ~connected THEN "false" ELSE IF p = "raise" THEN "false" ELSE p

\* is_connection_alive()
is_connection_alive == is_connection_alive_of(isConnected(ib)) = "true"

\* The subscriptions that survive self.ib.disconnect() / a drop of handle h.
WithoutHandle(h) == {s \in subs : s[1] # h}

\* A loop that never gives up.
LoopGuardAlways == TRUE

\* A loop that allows one attempt too many.
LoopGuardOffByOne == reconnect_attempts <= max_reconnect_attempts

\* ensure_connected()'s loop condition.
LoopGuard == reconnect_attempts < max_reconnect_attempts

\* The contract a price tool subscribes to.
ContractOf(o) == IF o = "get_stock_price" THEN "STK" ELSE "OPT"

\* get_stock_price / get_option_price, the extraction of the price data.
ExtractPrice(tk) == PyOr(PyOr(tk.marketPrice, tk.close), 0)

ExtractBid(tk) ==
    LET bid == IF GtZero(tk.bid) THEN tk.bid ELSE None
    IN  IF Truthy(bid) THEN bid ELSE None

ExtractAsk(tk) ==
    LET ask == IF GtZero(tk.ask) THEN tk.ask ELSE None
    IN  IF Truthy(ask) THEN ask ELSE None

ExtractVolume(tk) ==
    LET volume == IF GtZero(tk.volume) THEN tk.volume ELSE None
    IN  IF Truthy(volume) THEN PyInt(volume) ELSE None

MarketData(tk) ==
    [price |-> ExtractPrice(tk), bid |-> ExtractBid(tk),
     ask |-> ExtractAsk(tk), volume |-> ExtractVolume(tk)]

\* ------------------------------------------------------------------ Init

InitSession ==
    /\ ib = 0
    /\ nextIB = 1
    /\ open = {}
    /\ subs = {}
    /\ connected = FALSE
    /\ account = NoAccount
    /\ reconnect_attempts = 0
    /\ running = NoOne
    /\ pc = [c \in Callers |-> IF c = Lifespan THEN "new" ELSE "idle"]
    /\ conn = [c \in Callers |-> 0]
    /\ cret = [c \in Callers |-> "none"]
    /\ made = [t \in Tasks |-> 0]
    /\ succ = [t \in Tasks |-> 0]
    /\ alive0 = [t \in Tasks |-> FALSE]
    /\ ret = [t \in Tasks |-> "none"]
    /\ op = [t \in Tasks |-> "none"]
    /\ called = [t \in Tasks |-> FALSE]
    /\ touched = [t \in Tasks |-> FALSE]
    /\ invoked = [t \in Tasks |-> FALSE]
    /\ result = [t \in Tasks |-> "none"]
    /\ quote = [t \in Tasks |-> NoQuote]
    /\ arg = [t \in Tasks |-> NoArg]
    /\ out = [t \in Tasks |-> NoOut]

Init ==
    /\ config_account \in ConfigAccounts
    /\ managed \in ManagedLists
    /\ gwUp \in BOOLEAN
    /\ ticker \in SampleTickers
    /\ InitSession

\* ----------------------------------------------------------- app_lifespan

\* app_lifespan up to the await of connectAsync inside connect().
LifespanStart ==
    /\ pc[Lifespan] = "new"
    /\ running = NoOne
    /\ conn' = [conn EXCEPT ![Lifespan] = ib]
    /\ pc' = [pc EXCEPT ![Lifespan] = "connecting"]
    /\ UNCHANGED <<dataVars, envVars, clientVars, running, made, succ, alive0, ret, cret, handlerVars>>

\* connectAsync completes, connect() returns and app_lifespan yields the context.
LifespanConnected ==
    /\ pc[Lifespan] = "connecting"
    /\ running = NoOne
    /\ \E ok \in TransportOutcomes(conn[Lifespan]) :
         LET o == IF ok THEN open \cup {conn[Lifespan]} ELSE open
             r == connect(ok, o)
         IN  /\ open' = (IF r.ret = "raise" /\ r.connected THEN o \ {ib} ELSE o)
             /\ connected' = (IF r.ret = "raise" THEN FALSE ELSE r.connected)
             /\ account' = r.account
             /\ cret' = [cret EXCEPT ![Lifespan] = r.ret]
             /\ pc' = [pc EXCEPT ![Lifespan] =
                          IF r.ret = "raise" THEN "stopped" ELSE "serving"]
    /\ UNCHANGED <<dataVars, envVars, ib, nextIB, subs, reconnect_attempts, running,
                   conn, made, succ, alive0, ret, handlerVars>>

\* app_lifespan's finally: disconnect().
LifespanShutdown ==
    /\ pc[Lifespan] = "serving"
    /\ running = NoOne
    /\ \A t \in Tasks : pc[t] = "idle"
    /\ IF connected
       THEN /\ open' = open \ {ib}
            /\ subs' = WithoutHandle(ib)
            /\ connected' = FALSE
       ELSE UNCHANGED <<open, subs, connected>>
    /\ pc' = [pc EXCEPT ![Lifespan] = "stopped"]
    /\ UNCHANGED <<dataVars, envVars, ib, nextIB, account, reconnect_attempts, running,
                   callVars, handlerVars>>

\* ------------------------------------------------------- the tool handlers

\* Calls are made one at a time, each awaited before the next, as the
\* repository's own caller (test_connection.py) makes them; a call starts only
\* when the handles it may create fit under MaxHandles.
Admit(t) ==
    /\ \A u \in Tasks : pc[u] = "idle"
    /\ \/ is_connection_alive
       \/ nextIB + (max_reconnect_attempts - reconnect_attempts) <= MaxHandles

\* A tool handler of server.py starts.
Call(t, o) ==
    /\ pc[Lifespan] = "serving"
    /\ running = NoOne
    /\ pc[t] = "idle"
    /\ Admit(t)
    /\ running' = t
    /\ op' = [op EXCEPT ![t] = o]
    /\ pc' = [pc EXCEPT ![t] = IF o = StatusOp THEN "status" ELSE "ensure"]
    /\ UNCHANGED <<dataVars, envVars, clientVars, callVars, called, touched, invoked, result, quote>>

\* The handler's answer has been sent: the request and its variables are gone.
Return(t) ==
    /\ pc[t] = "done"
    /\ running = NoOne
    /\ pc' = [pc EXCEPT ![t] = "idle"]
    /\ op' = [op EXCEPT ![t] = "none"]
    /\ conn' = [conn EXCEPT ![t] = 0]
    /\ made' = [made EXCEPT ![t] = 0]
    /\ succ' = [succ EXCEPT ![t] = 0]
    /\ alive0' = [alive0 EXCEPT ![t] = FALSE]
    /\ ret' = [ret EXCEPT ![t] = "none"]
    /\ cret' = [cret EXCEPT ![t] = "none"]
    /\ called' = [called EXCEPT ![t] = FALSE]
    /\ touched' = [touched EXCEPT ![t] = FALSE]
    /\ invoked' = [invoked EXCEPT ![t] = FALSE]
    /\ result' = [result EXCEPT ![t] = "none"]
    /\ quote' = [quote EXCEPT ![t] = NoQuote]
    /\ arg' = [arg EXCEPT ![t] = NoArg]
    /\ out' = [out EXCEPT ![t] = NoOut]
    /\ UNCHANGED <<envVars, clientVars, running>>

\* An ensure_connected() that reconnects although the session is alive.
EnsureAliveReconnects(t) ==
    /\ pc[t] = "ensure"
    /\ running = t
    /\ is_connection_alive
    /\ connected' = FALSE
    /\ called' = [called EXCEPT ![t] = TRUE]
    /\ alive0' = [alive0 EXCEPT ![t] = TRUE]
    /\ pc' = [pc EXCEPT ![t] = "loop"]
    /\ UNCHANGED <<dataVars, envVars, ib, nextIB, open, subs, account, reconnect_attempts,
                   running, conn, made, succ, ret, cret, op, touched, invoked,
                   result, quote>>

\* ensure_connected(), the session alive: lines 94-96.
EnsureAlive(t) ==
    /\ pc[t] = "ensure"
    /\ running = t
    /\ is_connection_alive
    /\ reconnect_attempts' = 0
    /\ called' = [called EXCEPT ![t] = TRUE]
    /\ alive0' = [alive0 EXCEPT ![t] = TRUE]
    /\ ret' = [ret EXCEPT ![t] = "true"]
    /\ pc' = [pc EXCEPT ![t] = "ensured"]
    /\ UNCHANGED <<dataVars, envVars, ib, nextIB, open, subs, connected, account, running,
                   conn, made, succ, cret, op, touched, invoked, result, quote>>

\* ensure_connected(), the session not alive: lines 94-100.
EnsureDead(t) ==
    /\ pc[t] = "ensure"
    /\ running = t
    /\ ~is_connection_alive
    /\ connected' = FALSE
    /\ called' = [called EXCEPT ![t] = TRUE]
    /\ alive0' = [alive0 EXCEPT ![t] = FALSE]
    /\ pc' = [pc EXCEPT ![t] = "loop"]
    /\ UNCHANGED <<dataVars, envVars, ib, nextIB, open, subs, account, reconnect_attempts,
                   running, conn, made, succ, ret, cret, op, touched, invoked,
                   result, quote>>

\* A pass of the loop that connects again on the handle it has.
LoopAttemptKeepsHandle(t) ==
    /\ pc[t] = "loop"
    /\ running = t
    /\ LoopGuard
    /\ nextIB < MaxHandles
    /\ reconnect_attempts' = reconnect_attempts + 1
    /\ made' = [made EXCEPT ![t] = @ + 1]
    /\ conn' = [conn EXCEPT ![t] = ib]
    /\ pc' = [pc EXCEPT ![t] = "connecting"]
    /\ running' = NoOne
    /\ UNCHANGED <<dataVars, envVars, ib, nextIB, open, subs, connected, account, succ,
                   alive0, ret, cret, handlerVars>>

\* One pass of the loop up to the await of connectAsync: lines 102-117, 36.
LoopAttempt(t) ==
    /\ pc[t] = "loop"
    /\ running = t
    /\ LoopGuard
    /\ nextIB < MaxHandles
    /\ reconnect_attempts' = reconnect_attempts + 1
    /\ made' = [made EXCEPT ![t] = @ + 1]
    /\ open' = open \ {ib}
    /\ subs' = WithoutHandle(ib)
    /\ ib' = nextIB
    /\ nextIB' = nextIB + 1
    /\ conn' = [conn EXCEPT ![t] = nextIB]
    /\ pc' = [pc EXCEPT ![t] = "connecting"]
    /\ running' = NoOne
    /\ UNCHANGED <<dataVars, envVars, connected, account, succ, alive0, ret, cret, handlerVars>>

\* The loop ends without a connection: lines 102, 129-130.
LoopExit(t) ==
    /\ pc[t] = "loop"
    /\ running = t
    /\ ~LoopGuard
    /\ ret' = [ret EXCEPT ![t] = "false"]
    /\ pc' = [pc EXCEPT ![t] = "ensured"]
    /\ UNCHANGED <<dataVars, envVars, clientVars, running, conn, made, succ, alive0, cret,
                   handlerVars>>

\* connectAsync completes; connect() returns into the loop, which returns True
\* or goes to sleep: lines 36-55, 117-127.
ConnectReturn(t) ==
    /\ pc[t] = "connecting"
    /\ running = NoOne
    /\ \E ok \in TransportOutcomes(conn[t]) :
         LET o == IF ok THEN open \cup {conn[t]} ELSE open
             r == connect(ok, o)
         IN  /\ open' = o
             /\ connected' = r.connected
             /\ account' = r.account
             /\ cret' = [cret EXCEPT ![t] = r.ret]
             /\ IF r.ret = "true"
                THEN /\ reconnect_attempts' = 0
                     /\ succ' = [succ EXCEPT ![t] = @ + 1]
                     /\ ret' = [ret EXCEPT ![t] = "true"]
                     /\ pc' = [pc EXCEPT ![t] = "ensured"]
                     /\ running' = t
                ELSE /\ pc' = [pc EXCEPT ![t] = "sleep"]
                     /\ UNCHANGED <<reconnect_attempts, succ, ret, running>>
    /\ UNCHANGED <<dataVars, envVars, ib, nextIB, subs, conn, made, alive0, handlerVars>>

\* asyncio.sleep(2) is over: line 127.
BackoffDone(t) ==
    /\ pc[t] = "sleep"
    /\ running = NoOne
    /\ pc' = [pc EXCEPT ![t] = "loop"]
    /\ running' = t
    /\ UNCHANGED <<dataVars, envVars, clientVars, callVars, handlerVars>>

\* The handler's answer when ensure_connected() returned False.
HandlerNotConnected(t) ==
    /\ pc[t] = "ensured"
    /\ running = t
    /\ ret[t] = "false"
    /\ result' = [result EXCEPT ![t] = "not_connected"]
    /\ pc' = [pc EXCEPT ![t] = "done"]
    /\ running' = NoOne
    /\ UNCHANGED <<dataVars, envVars, clientVars, callVars, op, called, touched, invoked, quote>>

\* get_option_price's check of `right`: server.py 158-160.
HandlerInvalidRight(t) ==
    /\ pc[t] = "ensured"
    /\ running = t
    /\ ret[t] = "true"
    /\ op[t] = "get_option_price"
    /\ result' = [result EXCEPT ![t] = "invalid_right"]
    /\ pc' = [pc EXCEPT ![t] = "done"]
    /\ running' = NoOne
    /\ UNCHANGED <<dataVars, envVars, clientVars, callVars, op, called, touched, invoked, quote>>

\* What an accessor can answer on a connected session: the gateway read
\* succeeds or raises.
AccessorAnswers(o) == {"ok", "error"}

\* A handler that goes on to the accessor whatever ensure_connected() returned.
HandlerInvokeUnguarded(t) ==
    /\ pc[t] = "ensured"
    /\ running = t
    /\ op[t] \in GuardedOps \ PriceOps
    /\ touched' = [touched EXCEPT ![t] = TRUE]
    /\ invoked' = [invoked EXCEPT ![t] = TRUE]
    /\ \E a \in AccessorAnswers(op[t]) :
         result' = [result EXCEPT ![t] = IF connected THEN a ELSE "error"]
    /\ pc' = [pc EXCEPT ![t] = "done"]
    /\ running' = NoOne
    /\ UNCHANGED <<dataVars, envVars, clientVars, callVars, op, called, quote>>

\* The handler invokes an accessor that has no await: it runs to its end.
HandlerInvoke(t) ==
    /\ pc[t] = "ensured"
    /\ running = t
    /\ ret[t] = "true"
    /\ op[t] \in GuardedOps \ PriceOps
    /\ touched' = [touched EXCEPT ![t] = TRUE]
    /\ invoked' = [invoked EXCEPT ![t] = TRUE]
    /\ \E a \in AccessorAnswers(op[t]) :
         result' = [result EXCEPT ![t] = IF connected THEN a ELSE "error"]
    /\ pc' = [pc EXCEPT ![t] = "done"]
    /\ running' = NoOne
    /\ UNCHANGED <<dataVars, envVars, clientVars, callVars, op, called, quote>>

\* get_stock_price / get_option_price up to asyncio.sleep(2): lines 259-269.
PriceRequest(t) ==
    /\ pc[t] = "ensured"
    /\ running = t
    /\ ret[t] = "true"
    /\ op[t] \in PriceOps
    /\ touched' = [touched EXCEPT ![t] = TRUE]
    /\ invoked' = [invoked EXCEPT ![t] = TRUE]
    /\ IF connected
       THEN /\ subs' = subs \cup {<<ib, ContractOf(op[t])>>}
            /\ pc' = [pc EXCEPT ![t] = "waitdata"]
            /\ UNCHANGED result
       ELSE /\ result' = [result EXCEPT ![t] = "error"]
            /\ pc' = [pc EXCEPT ![t] = "done"]
            /\ UNCHANGED subs
    /\ running' = NoOne
    /\ UNCHANGED <<dataVars, envVars, ib, nextIB, open, connected, account, reconnect_attempts,
                   callVars, op, called, quote>>

\* A fetch that marks the session disconnected when reqTicker raises.
PriceFetchDropsSession(t) ==
    /\ pc[t] = "waitdata"
    /\ running = NoOne
    /\ \E raises \in BOOLEAN :
         IF raises
         THEN /\ result' = [result EXCEPT ![t] = "error"]
              /\ connected' = FALSE
              /\ UNCHANGED <<subs, quote>>
         ELSE /\ subs' = subs \ {<<ib, ContractOf(op[t])>>}
              /\ quote' = [quote EXCEPT ![t] = MarketData(ticker)]
              /\ result' = [result EXCEPT ![t] = "ok"]
              /\ UNCHANGED connected
    /\ pc' = [pc EXCEPT ![t] = "done"]
    /\ UNCHANGED <<dataVars, envVars, ib, nextIB, open, account, reconnect_attempts,
                   running, callVars, op, called, touched, invoked>>

\* The rest of get_stock_price / get_option_price: reqTicker raises, or it
\* returns and the subscription is cancelled: lines 271-295.
PriceFetch(t) ==
    /\ pc[t] = "waitdata"
    /\ running = NoOne
    /\ \E raises \in BOOLEAN :
         IF raises
         THEN /\ result' = [result EXCEPT ![t] = "error"]
              /\ UNCHANGED <<subs, quote>>
         ELSE /\ subs' = subs \ {<<ib, ContractOf(op[t])>>}
              /\ quote' = [quote EXCEPT ![t] = MarketData(ticker)]
              /\ result' = [result EXCEPT ![t] = "ok"]
    /\ pc' = [pc EXCEPT ![t] = "done"]
    /\ UNCHANGED <<dataVars, envVars, ib, nextIB, open, connected, account, reconnect_attempts,
                   running, callVars, op, called, touched, invoked>>

\* get_connection_status: server.py 172-203.
HandlerStatus(t) ==
    /\ pc[t] = "status"
    /\ running = t
    /\ touched' = [touched EXCEPT ![t] = TRUE]
    /\ result' = [result EXCEPT ![t] = "ok"]
    /\ pc' = [pc EXCEPT ![t] = "done"]
    /\ running' = NoOne
    /\ UNCHANGED <<dataVars, envVars, clientVars, callVars, op, called, invoked, quote>>

\* ------------------------------------------------------------ the gateway

\* The gateway starts or stops accepting connections.
GatewayToggle ==
    /\ running = NoOne
    /\ gwUp' = ~gwUp
    /\ UNCHANGED <<dataVars, config_account, managed, ticker, clientVars, running, pc,
                   callVars, handlerVars>>

\* An open transport is lost; its subscriptions go with it.
Drop(h) ==
    /\ running = NoOne
    /\ h \in open
    /\ open' = open \ {h}
    /\ subs' = WithoutHandle(h)
    /\ UNCHANGED <<dataVars, envVars, ib, nextIB, connected, account, reconnect_attempts,
                   running, pc, callVars, handlerVars>>

\* ------------------------------------------------------------------ Spec

Next ==
    \/ LifespanStart
    \/ LifespanConnected
    \/ LifespanShutdown
    \/ \E t \in Tasks, o \in Ops : Call(t, o)
    \/ \E t \in Tasks : EnsureAlive(t)
    \/ \E t \in Tasks : EnsureDead(t)
    \/ \E t \in Tasks : LoopAttempt(t)
    \/ \E t \in Tasks : LoopExit(t)
    \/ \E t \in Tasks : ConnectReturn(t)
    \/ \E t \in Tasks : BackoffDone(t)
    \/ \E t \in Tasks : HandlerNotConnected(t)
    \/ \E t \in Tasks : HandlerInvalidRight(t)
    \/ \E t \in Tasks : HandlerInvoke(t)
    \/ \E t \in Tasks : PriceRequest(t)
    \/ \E t \in Tasks : PriceFetch(t)
    \/ \E t \in Tasks : HandlerStatus(t)
    \/ \E t \in Tasks : Return(t)
    \/ GatewayToggle
    \/ \E h \in Handles : Drop(h)

Spec == Init /\ [][Next]_vars

\* The event loop resumes a coroutine whose await is over, and runs it on.
EnsureStep ==
    \E t \in Tasks :
        \/ EnsureAlive(t) \/ EnsureDead(t) \/ LoopAttempt(t)
        \/ LoopExit(t) \/ ConnectReturn(t) \/ BackoffDone(t)

SpecLive == Spec /\ WF_vars(EnsureStep)

\* ------------------------------------------------ direct calls of the client

\* test_connection.py calls the client's methods itself, one after another,
\* in one coroutine.
Script == "t1"

ClientMethods == {"connect", "disconnect", "is_connection_alive"} \cup GuardedOps

NotConnected == "Not connected to IBKR TWS. Call connect() first."

Raise(what, sent) == [kind |-> "raise", value |-> what, sent |-> sent]

Returned(value, sent) == [kind |-> "return", value |-> value, sent |-> sent]

\* A guard that lets every call through.
ensure_connected_raises_never == FALSE

\* _ensure_connected() raises: lines 77-80.
ensure_connected_raises == ~connected

\* A disconnect() that closes the transport whatever the flag says.
disconnect_unconditional(s) ==
    [open |-> s.open \ {ib}, subs |-> {x \in s.subs : x[1] # ib},
     connected |-> FALSE, sent |-> <<"disconnect">>]

\* disconnect() on the session s: lines 57-62.
disconnect(s) ==
    IF s.connected
    THEN [open |-> s.open \ {ib}, subs |-> {x \in s.subs : x[1] # ib},
          connected |-> FALSE, sent |-> <<"disconnect">>]
    ELSE [open |-> s.open, subs |-> s.subs, connected |-> s.connected, sent |-> << >>]

\* The session as disconnect() sees it.
Session == [open |-> open, subs |-> subs, connected |-> connected]

\* The script calls a method of the client.
DirectCall(t, m) ==
    /\ t = Script
    /\ pc[Lifespan] = "new"
    /\ running = NoOne
    /\ pc[t] = "idle"
    /\ running' = t
    /\ op' = [op EXCEPT ![t] = m]
    /\ pc' = [pc EXCEPT ![t] = "direct"]
    /\ UNCHANGED <<dataVars, envVars, clientVars, callVars, called, touched, invoked,
                   result, quote>>

\* connect() up to the await of connectAsync: lines 33-36.
ClientConnect(t) ==
    /\ pc[t] = "direct"
    /\ running = t
    /\ op[t] = "connect"
    /\ conn' = [conn EXCEPT ![t] = ib]
    /\ pc' = [pc EXCEPT ![t] = "dconnecting"]
    /\ running' = NoOne
    /\ UNCHANGED <<dataVars, envVars, clientVars, made, succ, alive0, ret, cret,
                   handlerVars>>

\* connectAsync completes and connect() returns: lines 36-55.
ClientConnected(t) ==
    /\ pc[t] = "dconnecting"
    /\ running = NoOne
    /\ \E ok \in TransportOutcomes(conn[t]) :
         LET o == IF ok THEN open \cup {conn[t]} ELSE open
             r == connect(ok, o)
         IN  /\ open' = o
             /\ connected' = r.connected
             /\ account' = r.account
             /\ cret' = [cret EXCEPT ![t] = r.ret]
             /\ out' = [out EXCEPT ![t] = Returned(r.ret, <<"connectAsync">>)]
    /\ pc' = [pc EXCEPT ![t] = "done"]
    /\ UNCHANGED <<envVars, ib, nextIB, subs, reconnect_attempts, running, conn,
                   made, succ, alive0, ret, handlerVars, arg>>

\* disconnect(): lines 57-62.
ClientDisconnect(t) ==
    /\ pc[t] = "direct"
    /\ running = t
    /\ op[t] = "disconnect"
    /\ LET d == disconnect(Session)
       IN  /\ open' = d.open
           /\ subs' = d.subs
           /\ connected' = d.connected
           /\ out' = [out EXCEPT ![t] = Returned("None", d.sent)]
    /\ pc' = [pc EXCEPT ![t] = "done"]
    /\ running' = NoOne
    /\ UNCHANGED <<envVars, ib, nextIB, account, reconnect_attempts, callVars,
                   handlerVars, arg>>

\* is_connection_alive(), called on a transport whose probe answers or, as a
\* stub can, raises: lines 82-90.
ClientAlive(t) ==
    /\ pc[t] = "direct"
    /\ running = t
    /\ op[t] = "is_connection_alive"
    /\ \E p \in {isConnected(ib), "raise"} :
         /\ arg' = [arg EXCEPT ![t] = [kind |-> "probe", probe |-> p]]
         /\ LET r == is_connection_alive_of(p)
            IN  out' = [out EXCEPT ![t] =
                           IF r = "raise"
                           THEN Raise("isConnected", IF connected THEN <<"isConnected">> ELSE << >>)
                           ELSE Returned(r, IF connected THEN <<"isConnected">> ELSE << >>)]
    /\ pc' = [pc EXCEPT ![t] = "done"]
    /\ running' = NoOne
    /\ UNCHANGED <<envVars, clientVars, callVars, handlerVars>>

\* An accessor called on a session whose flag is False: _ensure_connected()
\* raises before anything else is done.
AccessorNotConnected(t) ==
    /\ pc[t] = "direct"
    /\ running = t
    /\ op[t] \in GuardedOps
    /\ ensure_connected_raises
    /\ out' = [out EXCEPT ![t] = Raise(NotConnected, << >>)]
    /\ pc' = [pc EXCEPT ![t] = "done"]
    /\ running' = NoOne
    /\ UNCHANGED <<envVars, clientVars, callVars, handlerVars, arg>>

\* get_stock_price / get_option_price up to asyncio.sleep(2), called directly.
AccessorPrice(t) ==
    /\ pc[t] = "direct"
    /\ running = t
    /\ op[t] \in PriceOps
    /\ ~ensure_connected_raises
    /\ subs' = subs \cup {<<ib, ContractOf(op[t])>>}
    /\ out' = [out EXCEPT ![t] = [kind |-> "pending", value |-> "none",
                                  sent |-> <<"reqMktData">>]]
    /\ pc' = [pc EXCEPT ![t] = "waitdata"]
    /\ running' = NoOne
    /\ UNCHANGED <<envVars, ib, nextIB, open, connected, account, reconnect_attempts,
                   callVars, handlerVars, arg>>

\* ------------------------------------------------------------ cancel_order

\* The sequences over S of length at most n.
SeqsUpTo(S, n) == UNION {[1 .. k -> S] : k \in 0 .. n}

OrderIds == 1 .. MaxOrderId

\* What cancel_order is called with and what openTrades() then holds: the
\* order id of each open trade, in the gateway's order.  Orders of different
\* API clients may carry the same id.
CancelInputs ==
    {[kind |-> "cancel", order_id |-> i, trades |-> tr] :
        i \in 1 .. MaxOrderId + 1, tr \in SeqsUpTo(OrderIds, MaxOpen)}

\* The loop of lines 529-532 from position i on: the position of the target
\* trade, 0 for None.
RECURSIVE target_trade(_, _, _)
target_trade(trades, order_id, i) ==
    IF i > Len(trades) THEN 0
    ELSE IF trades[i] = order_id THEN i
    ELSE target_trade(trades, order_id, i + 1)

\* A cancel_order that cancels every open order with the id.
cancel_order_every_match(trades, order_id) ==
    LET hits == SelectSeq([i \in 1 .. Len(trades) |-> i], LAMBDA i : trades[i] = order_id)
    IN  IF hits = << >>
        THEN [kind |-> "return", value |-> "False", sent |-> <<"openTrades">>,
              cancelled |-> << >>]
        ELSE [kind |-> "return", value |-> "True",
              sent |-> <<"openTrades">> \o [i \in 1 .. Len(hits) |-> "cancelOrder"],
              cancelled |-> hits]

\* cancel_order after _ensure_connected(): lines 524-541.  `cancelled` lists
\* the positions of the open trades whose order went to self.ib.cancelOrder.
cancel_order(trades, order_id) ==
    LET target == target_trade(trades, order_id, 1)
    IN  IF target = 0
        THEN [kind |-> "return", value |-> "False", sent |-> <<"openTrades">>,
              cancelled |-> << >>]
        ELSE [kind |-> "return", value |-> "True",
              sent |-> <<"openTrades", "cancelOrder">>, cancelled |-> <<target>>]

CancelOrder(t) ==
    /\ pc[t] = "direct"
    /\ running = t
    /\ op[t] = "cancel_order"
    /\ ~ensure_connected_raises
    /\ \E a \in CancelInputs :
         /\ arg' = [arg EXCEPT ![t] = a]
         /\ out' = [out EXCEPT ![t] = cancel_order(a.trades, a.order_id)]
    /\ pc' = [pc EXCEPT ![t] = "done"]
    /\ running' = NoOne
    /\ UNCHANGED <<envVars, clientVars, callVars, handlerVars>>

\* ----------------------------------------------------- get_account_summary

AccountTags == {"NetLiquidation", "AvailableFunds", "Currency"}

ValueStrings == {"125430.55", "98210.10", "USD", ""}

\* What accountValues(self.account) may hold.
AccountValueLists ==
    {[kind |-> "values", items |-> v] :
        v \in SeqsUpTo([tag : AccountTags, value : ValueStrings], MaxValues)}

\* float(s) succeeds.
IsFloat(s) == s \in {"125430.55", "98210.10"}

\* float(s), in hundredths.
PyFloat(s) == CASE s = "125430.55" -> 12543055 [] s = "98210.10" -> 9821010

EmptyDict == [k \in {} |-> 0]

\* d[k] = v
DictPut(d, k, v) == [x \in DOMAIN d \cup {k} |-> IF x = k THEN v ELSE d[x]]

\* A lookup that has no default.
dict_get_no_default(d, k, default) == IF k \in DOMAIN d THEN d[k] ELSE None

\* d.get(k, default)
dict_get(d, k, default) == IF k \in DOMAIN d THEN d[k] ELSE default

\* The loop of lines 224-230 over the entries still to read.
RECURSIVE account_values(_, _)
account_values(items, d) ==
    IF items = << >> THEN d
    ELSE LET item == Head(items)
         IN  account_values(Tail(items),
                            IF IsFloat(item.value)
                            THEN DictPut(d, item.tag, PyFloat(item.value))
                            ELSE d)

\* get_account_summary after _ensure_connected(): lines 222-251.
get_account_summary(items) ==
    LET av == account_values(items, EmptyDict)
    IN  [account |-> account,
         net_liquidation |-> dict_get(av, "NetLiquidation", 0),
         total_cash_value |-> dict_get(av, "TotalCashValue", 0),
         settled_cash |-> dict_get(av, "SettledCash", 0),
         accrued_cash |-> dict_get(av, "AccruedCash", 0),
         buying_power |-> dict_get(av, "BuyingPower", 0),
         equity_with_loan_value |-> dict_get(av, "EquityWithLoanValue", 0),
         previous_day_equity_with_loan_value |->
             dict_get(av, "PreviousDayEquityWithLoanValue", 0),
         gross_position_value |-> dict_get(av, "GrossPositionValue", 0),
         reg_t_margin |-> dict_get(av, "RegTMargin", 0),
         sma |-> dict_get(av, "SMA", 0),
         init_margin_req |-> dict_get(av, "InitMarginReq", 0),
         maint_margin_req |-> dict_get(av, "MaintMarginReq", 0),
         available_funds |-> dict_get(av, "AvailableFunds", 0),
         excess_liquidity |-> dict_get(av, "ExcessLiquidity", 0)]

GetAccountSummary(t) ==
    /\ pc[t] = "direct"
    /\ running = t
    /\ op[t] = "get_account_summary"
    /\ ~ensure_connected_raises
    /\ \E a \in AccountValueLists :
         /\ arg' = [arg EXCEPT ![t] = a]
         /\ out' = [out EXCEPT ![t] =
                       Returned(get_account_summary(a.items), <<"accountValues">>)]
    /\ pc' = [pc EXCEPT ![t] = "done"]
    /\ running' = NoOne
    /\ UNCHANGED <<envVars, clientVars, callVars, handlerVars>>

\* ------------------------------------------------ what the broker reports

\* None where a string may stand.
NoText == "None"

\* float(x) if x else default
FloatOr(x, default) == IF Truthy(x) THEN x ELSE default

\* Broker contracts.  A contract carries every field: ib_async fills the ones
\* its kind does not use with '' and 0.0.
Contracts ==
    {[secType |-> "STK", lastTradeDateOrContractMonth |-> "", strike |-> 0, right |-> ""],
     [secType |-> "FUT", lastTradeDateOrContractMonth |-> "20250321", strike |-> 0,
      right |-> ""],
     [secType |-> "FOP", lastTradeDateOrContractMonth |-> "20250321",
      strike |-> 3 * Scale, right |-> "P"]} \cup
    {[secType |-> "OPT", lastTradeDateOrContractMonth |-> "20250117",
      strike |-> 3 * Scale, right |-> r] : r \in {"C", "P"}}

\* The option fields read off every contract, whatever its kind.
option_fields_of_any_kind(contract) ==
    [expiry |-> contract.lastTradeDateOrContractMonth,
     strike |-> contract.strike,
     right |-> contract.right]

\* expiry, strike and right of a converted record: lines 192-199, and the
\* same lines at 369-376, 425-431 and 486-492.
option_fields(contract) ==
    IF contract.secType = "OPT"
    THEN [expiry |-> contract.lastTradeDateOrContractMonth,
          strike |-> contract.strike,
          right |-> contract.right]
    ELSE [expiry |-> NoText, strike |-> None, right |-> NoText]

\* The order status the broker holds for an order of quantity `total`: none
\* reported yet (ib_async's initial 0.0 and 0.0), or filled and remaining
\* quantities that add up to the order's.
OrderStatuses(total) ==
    {[status |-> "PendingSubmit", filled |-> 0, remaining |-> 0]} \cup
    {[status |-> IF f = total THEN "Filled" ELSE "Submitted",
      filled |-> f, remaining |-> total - f] : f \in 0 .. total}

\* The broker has reported the order's quantities.
Reported(ib_trade) == ib_trade.orderStatus.status # "PendingSubmit"

\* The broker's records of orders without fills.
BrokerTrades ==
    UNION {{[contract |-> c, order |-> [totalQuantity |-> q], orderStatus |-> st,
             fills |-> << >>] : c \in Contracts, st \in OrderStatuses(q)} :
           q \in 1 .. MaxQuantity}

\* ----------------------------------------------------------- get_portfolio

\* What self.ib.portfolio(self.account) may hold.
PortfolioItems ==
    [contract : Contracts, position : {-1, 2}, marketPrice : {0, 5 * Scale},
     marketValue : {10 * Scale}, averageCost : {4 * Scale}, unrealizedPNL : {0},
     realizedPNL : {Scale}]

\* What get_portfolio reads: the portfolio items and the account values, or
\* an error of the transport.
PortfolioInputs ==
    {[kind |-> "error"]} \cup
    {[kind |-> "portfolio", items |-> it, values |-> v] :
        it \in SeqsUpTo(PortfolioItems, 1),
        v \in {<< >>, <<[tag |-> "NetLiquidation", value |-> "125430.55"],
                        [tag |-> "Currency", value |-> "USD"]>>}}

\* _convert_portfolio_item: lines 181-216.
convert_portfolio_item(item) ==
    LET o == option_fields(item.contract)
    IN  [contract_type |-> item.contract.secType,
         quantity |-> item.position,
         market_price |-> FloatOr(item.marketPrice, 0),
         market_value |-> FloatOr(item.marketValue, 0),
         average_cost |-> FloatOr(item.averageCost, 0),
         unrealized_pnl |-> FloatOr(item.unrealizedPNL, 0),
         realized_pnl |-> FloatOr(item.realizedPNL, 0),
         expiry |-> o.expiry, strike |-> o.strike, right |-> o.right]

\* get_portfolio after _ensure_connected(): lines 136-179.
get_portfolio(a) ==
    IF a.kind = "error" THEN Raise("error", <<"portfolio">>)
    ELSE LET av == account_values(a.values, EmptyDict)
         IN  Returned([account |-> account,
                       positions |-> [i \in 1 .. Len(a.items) |->
                                          convert_portfolio_item(a.items[i])],
                       total_value |-> dict_get(av, "NetLiquidation", 0),
                       total_cash |-> dict_get(av, "TotalCashValue", 0),
                       buying_power |-> dict_get(av, "BuyingPower", 0),
                       day_pnl |-> dict_get(av, "DayPNL", 0),
                       unrealized_pnl |-> dict_get(av, "UnrealizedPnL", 0),
                       realized_pnl |-> dict_get(av, "RealizedPnL", 0)],
                      <<"portfolio", "accountValues">>)

GetPortfolio(t) ==
    /\ pc[t] = "direct"
    /\ running = t
    /\ op[t] = "get_portfolio"
    /\ ~ensure_connected_raises
    /\ \E a \in PortfolioInputs :
         /\ arg' = [arg EXCEPT ![t] = a]
         /\ out' = [out EXCEPT ![t] = get_portfolio(a)]
    /\ pc' = [pc EXCEPT ![t] = "done"]
    /\ running' = NoOne
    /\ UNCHANGED <<envVars, clientVars, callVars, handlerVars>>

\* -------------------------------------------------------------- get_orders

\* The statuses of an order that is no longer open.
DoneStates == {"Filled", "Cancelled", "ApiCancelled", "Inactive"}

\* What get_orders is called with and what the transport holds: every trade
\* of the session, or an error of the transport.
OrderInputs ==
    {[kind |-> "error", include_inactive |-> i] : i \in BOOLEAN} \cup
    {[kind |-> "orders", include_inactive |-> i, trades |-> tr] :
        i \in BOOLEAN, tr \in SeqsUpTo(BrokerTrades, 1)}

\* self.ib.openTrades(): the trades whose order is not done.
openTrades(trades) ==
    SelectSeq(trades, LAMBDA tr : tr.orderStatus.status \notin DoneStates)

\* _convert_trade_to_order: lines 363-398.
convert_trade_to_order(ib_trade) ==
    LET o == option_fields(ib_trade.contract)
    IN  [contract_type |-> ib_trade.contract.secType,
         status |-> ib_trade.orderStatus.status,
         total_quantity |-> ib_trade.order.totalQuantity,
         filled_quantity |-> FloatOr(ib_trade.orderStatus.filled, 0),
         remaining_quantity |-> FloatOr(ib_trade.orderStatus.remaining,
                                        ib_trade.order.totalQuantity),
         expiry |-> o.expiry, strike |-> o.strike, right |-> o.right]

\* get_orders after _ensure_connected(): lines 343-361.
get_orders(a) ==
    IF a.kind = "error"
    THEN Raise("error", <<IF a.include_inactive THEN "trades" ELSE "openTrades">>)
    ELSE LET ib_trades == IF a.include_inactive THEN a.trades ELSE openTrades(a.trades)
         IN  Returned([i \in 1 .. Len(ib_trades) |-> convert_trade_to_order(ib_trades[i])],
                      <<IF a.include_inactive THEN "trades" ELSE "openTrades">>)

GetOrders(t) ==
    /\ pc[t] = "direct"
    /\ running = t
    /\ op[t] = "get_orders"
    /\ ~ensure_connected_raises
    /\ \E a \in OrderInputs :
         /\ arg' = [arg EXCEPT ![t] = a]
         /\ out' = [out EXCEPT ![t] = get_orders(a)]
    /\ pc' = [pc EXCEPT ![t] = "done"]
    /\ running' = NoOne
    /\ UNCHANGED <<envVars, clientVars, callVars, handlerVars>>

\* -------------------------------------------------------------- get_trades

\* A fill: whether it has a commission report, and the report's values.
Fills ==
    {[report |-> FALSE, commission |-> None, realizedPNL |-> None]} \cup
    [report : {TRUE}, commission : {None, 0, 3 * Scale},
     realizedPNL : {None, -2 * Scale, 5 * Scale}]

\* What self.ib.trades() may hold: no trade, a filled stock order and its
\* fills, or an order without fills.
TradeLists ==
    {[kind |-> "trades", trades |-> << >>]} \cup
    {[kind |-> "trades",
      trades |-> <<[contract |-> [secType |-> "STK", lastTradeDateOrContractMonth |-> "",
                                  strike |-> 0, right |-> ""],
                    order |-> [totalQuantity |-> MaxQuantity],
                    orderStatus |-> [status |-> "Filled", filled |-> MaxQuantity,
                                     remaining |-> 0],
                    fills |-> f]>>] : f \in SeqsUpTo(Fills, MaxFills)} \cup
    {[kind |-> "trades", trades |-> <<b>>] : b \in BrokerTrades}

\* A fill's commission taken as it is.
fill_commission_unchecked(fill) == fill.commission

\* What one fill adds to total_commission: lines 437-438.
fill_commission(fill) ==
    IF fill.report
    THEN (IF Truthy(fill.commission) THEN fill.commission ELSE 0)
    ELSE 0

\* What one fill adds to total_realized_pnl: lines 437, 439.
fill_realized_pnl(fill) ==
    IF fill.report
    THEN (IF Truthy(fill.realizedPNL) THEN fill.realizedPNL ELSE 0)
    ELSE 0

\* The loop of lines 434-439 over the fills still to read.
RECURSIVE total_commission(_, _)
total_commission(fills, total) ==
    IF fills = << >> THEN total
    ELSE total_commission(Tail(fills), total + fill_commission(Head(fills)))

RECURSIVE total_realized_pnl(_, _)
total_realized_pnl(fills, total) ==
    IF fills = << >> THEN total
    ELSE total_realized_pnl(Tail(fills), total + fill_realized_pnl(Head(fills)))

\* _convert_to_trade: lines 418-459.
convert_to_trade(ib_trade) ==
    LET o == option_fields(ib_trade.contract)
    IN  [contract_type |-> ib_trade.contract.secType,
         status |-> ib_trade.orderStatus.status,
         total_quantity |-> ib_trade.order.totalQuantity,
         filled_quantity |-> FloatOr(ib_trade.orderStatus.filled, 0),
         remaining_quantity |-> FloatOr(ib_trade.orderStatus.remaining, 0),
         expiry |-> o.expiry, strike |-> o.strike, right |-> o.right,
         commission |-> total_commission(ib_trade.fills, 0),
         realized_pnl |-> total_realized_pnl(ib_trade.fills, 0)]

\* get_trades after _ensure_connected(): lines 404-412.
get_trades(ib_trades) == [i \in 1 .. Len(ib_trades) |-> convert_to_trade(ib_trades[i])]

GetTrades(t) ==
    /\ pc[t] = "direct"
    /\ running = t
    /\ op[t] = "get_trades"
    /\ ~ensure_connected_raises
    /\ \E a \in TradeLists :
         /\ arg' = [arg EXCEPT ![t] = a]
         /\ out' = [out EXCEPT ![t] = Returned(get_trades(a.trades), <<"trades">>)]
    /\ pc' = [pc EXCEPT ![t] = "done"]
    /\ running' = NoOne
    /\ UNCHANGED <<envVars, clientVars, callVars, handlerVars>>

\* ---------------------------------------------------------- get_executions

\* execution.time as the transport hands it over: none, a text of the form
\* '%Y%m%d %H:%M:%S', or a datetime, whose text has another form.
ExecutionTimes == {"", "20250102 10:00:00", "2025-01-02 10:00:00+00:00"}

\* datetime.strptime(str(time), '%Y%m%d %H:%M:%S') succeeds.
ParsesAsTime(s) == s = "20250102 10:00:00"

\* What self.ib.fills() may hold: no fill or one, or an error of the transport.
ExecutionInputs ==
    {[kind |-> "error"]} \cup
    {[kind |-> "fills", fills |-> f] :
        f \in SeqsUpTo([contract : Contracts, time : ExecutionTimes,
                        commissionReport : Fills], 1)}

\* _convert_fill_to_execution: lines 479-518.
convert_fill_to_execution(fill) ==
    LET o == option_fields(fill.contract)
        report == fill.commissionReport
    IN  [contract_type |-> fill.contract.secType,
         time |-> IF fill.time # "" /\ ParsesAsTime(fill.time) THEN fill.time ELSE "now",
         expiry |-> o.expiry, strike |-> o.strike, right |-> o.right,
         commission |-> IF report.report /\ Truthy(report.commission)
                        THEN report.commission ELSE 0,
         realized_pnl |-> IF report.report /\ Truthy(report.realizedPNL)
                          THEN report.realizedPNL ELSE 0]

\* get_executions after _ensure_connected(): lines 465-477.
get_executions(a) ==
    IF a.kind = "error" THEN Raise("error", <<"fills">>)
    ELSE Returned([i \in 1 .. Len(a.fills) |-> convert_fill_to_execution(a.fills[i])],
                  <<"fills">>)

GetExecutions(t) ==
    /\ pc[t] = "direct"
    /\ running = t
    /\ op[t] = "get_executions"
    /\ ~ensure_connected_raises
    /\ \E a \in ExecutionInputs :
         /\ arg' = [arg EXCEPT ![t] = a]
         /\ out' = [out EXCEPT ![t] = get_executions(a)]
    /\ pc' = [pc EXCEPT ![t] = "done"]
    /\ running' = NoOne
    /\ UNCHANGED <<envVars, clientVars, callVars, handlerVars>>

\* -------------------------------------------------------- get_option_chain

Min(a, b) == IF a <= b THEN a ELSE b

Max(a, b) == IF a >= b THEN a ELSE b

\* sorted(S) of a set of numbers.
RECURSIVE sorted(_)
sorted(S) ==
    IF S = {} THEN << >>
    ELSE LET m == CHOOSE x \in S : \A y \in S : x <= y
         IN  <<m>> \o sorted(S \ {m})

\* The ticker of an option contract: a quoted and traded one; a quoted one
\* with no trade today, whose last and volume are still nan; an empty one.
Liquid ==
    [bid |-> Scale, ask |-> Scale + 1, last |-> Scale, volume |-> 2 * Scale,
     greeks |-> TRUE]

OptionTickers ==
    {Liquid,
     [bid |-> Scale, ask |-> Scale + 1, last |-> NaN, volume |-> NaN, greeks |-> TRUE],
     [bid |-> -Scale, ask |-> -Scale, last |-> NaN, volume |-> 0, greeks |-> FALSE]}

\* What the gateway does with one option contract: qualifyContracts raises,
\* finds nothing, or finds the contract, whose ticker then is tk.
SideAnswers ==
    {[qualify |-> "raise", tk |-> Liquid], [qualify |-> "empty", tk |-> Liquid]} \cup
    {[qualify |-> "ok", tk |-> tk] : tk \in OptionTickers}

LiquidAnswer == [qualify |-> "ok", tk |-> Liquid]

\* What self._request_market_data(stock) gives back: an error, or a ticker.
UnderlyingTickers ==
    {[marketPrice |-> x, last |-> x, close |-> x] : x \in 0 .. MaxStrike + 1} \cup
    {[marketPrice |-> NaN, last |-> NaN, close |-> NaN]}

\* The example of the specification, in hundredths.
ExampleChain ==
    [kind |-> "chain", exchange |-> "SMART", strike_range |-> 4,
     fetcher |-> "ticker",
     underlying |-> [marketPrice |-> 18732, last |-> 18732, close |-> 18700],
     chains |-> <<[exchange |-> "SMART",
                   strikes |-> {17000, 17500, 18000, 18500, 19000, 19500, 20000}]>>,
     bad |-> 0, call |-> LiquidAnswer, put |-> LiquidAnswer]

\* What the call of self._request_market_data at line 563 meets: the class as
\* it stands defines no such method ("missing"); the method of the
\* specification returns the ticker or raises.
Fetchers == {"missing", "raise", "ticker"}

\* What get_option_chain is called with (exchange, strike_range), what line
\* 563 meets, and what the gateway answers: the underlying's ticker, the chains of
\* reqSecDefOptParams, and the answers `call` and `put` for the two contracts
\* at strike `bad`, every other contract being liquid.
ChainInputs ==
    {[kind |-> "chain", exchange |-> "SMART", strike_range |-> w, fetcher |-> "ticker",
      underlying |-> u, chains |-> <<[exchange |-> "SMART", strikes |-> S]>>,
      bad |-> 0, call |-> LiquidAnswer, put |-> LiquidAnswer] :
        w \in 0 .. MaxWindow, u \in UnderlyingTickers, S \in SUBSET (1 .. MaxStrike)}
    \cup
    {[kind |-> "chain", exchange |-> "SMART", strike_range |-> MaxWindow,
      fetcher |-> "ticker",
      underlying |-> [marketPrice |-> 2, last |-> 2, close |-> 2],
      chains |-> <<[exchange |-> "SMART", strikes |-> {1, 2, 3}]>>,
      bad |-> b, call |-> c, put |-> q] :
        b \in {1, 2, 3}, c \in SideAnswers, q \in SideAnswers}
    \cup
    {[kind |-> "chain", exchange |-> e, strike_range |-> 2, fetcher |-> r,
      underlying |-> [marketPrice |-> 2, last |-> 2, close |-> 2],
      chains |-> ch, bad |-> 0, call |-> LiquidAnswer, put |-> LiquidAnswer] :
        e \in {"SMART", "CBOE", "ISE"}, r \in Fetchers,
        ch \in {<< >>, <<[exchange |-> "AMEX", strikes |-> {1}],
                        [exchange |-> "CBOE", strikes |-> {2, 3}]>>}}
    \cup {ExampleChain}

\* underlying_price: line 564.
underlying_price(stock_ticker) ==
    PyOr(PyOr(PyOr(stock_ticker.marketPrice, stock_ticker.last), stock_ticker.close), 0)

\* The loop of lines 574-577 from position i on: the position of the chosen
\* chain, 0 for None.
RECURSIVE chain_for(_, _, _)
chain_for(chains, exchange, i) ==
    IF i > Len(chains) THEN 0
    ELSE IF chains[i].exchange = exchange \/ exchange = "SMART" THEN i
    ELSE chain_for(chains, exchange, i + 1)

\* The chain get_option_chain works on: lines 572-580.
chosen_chain(chains, exchange) ==
    LET i == chain_for(chains, exchange, 1)
    IN  IF i = 0 THEN chains[1] ELSE chains[i]

\* abs(strike - price)
AbsDiff(strike, price) ==
    IF price = NaN THEN NaN
    ELSE IF strike >= price THEN strike - price ELSE price - strike

\* a < b of two floats: every comparison with nan is false.
Less(a, b) == a # NaN /\ b # NaN /\ a < b

\* min(range(len(all_strikes)), key=...) from position i on, best being the
\* position kept so far; positions count from 0 as in the code.
RECURSIVE min_index(_, _, _, _)
min_index(all_strikes, price, i, best) ==
    IF i >= Len(all_strikes) THEN best
    ELSE min_index(all_strikes, price, i + 1,
                   IF Less(AbsDiff(all_strikes[i + 1], price),
                           AbsDiff(all_strikes[best + 1], price))
                   THEN i ELSE best)

\* An ATM search that keeps the last of several equally close strikes.
atm_index_last_tie(all_strikes, price) ==
    CHOOSE i \in 0 .. Len(all_strikes) - 1 :
        \A j \in 0 .. Len(all_strikes) - 1 :
            /\ AbsDiff(all_strikes[i + 1], price) <= AbsDiff(all_strikes[j + 1], price)
            /\ AbsDiff(all_strikes[i + 1], price) = AbsDiff(all_strikes[j + 1], price)
                 => j <= i

\* atm_index: line 584.
atm_index(all_strikes, price) == min_index(all_strikes, price, 1, 0)

\* A window that reaches back the whole of strike_range.
start_idx_full_range(atm, strike_range) == Max(0, atm - strike_range)

\* start_idx: line 586.
start_idx(atm, strike_range) == Max(0, atm - strike_range \div 2)

\* A window one strike too wide.
end_idx_one_more(len, atm, strike_range) == Min(len, atm + strike_range \div 2 + 2)

\* end_idx: line 587.
end_idx(len, atm, strike_range) == Min(len, atm + strike_range \div 2 + 1)

\* all_strikes[start:end]
Slice(seq, start, end) == IF start >= end THEN << >> ELSE SubSeq(seq, start + 1, end)

\* selected_strikes: lines 583-588.
selected_strikes(strikes, price, strike_range) ==
    LET all_strikes == sorted(strikes)
        atm == atm_index(all_strikes, price)
    IN  Slice(all_strikes, start_idx(atm, strike_range),
              end_idx(Len(all_strikes), atm, strike_range))

\* One side of an OptionChainStrike as its constructor leaves it; `failed`
\* says that the side's except clause logged a warning, `left` that a
\* market-data request was not cancelled.
NoSide ==
    [bid |-> None, ask |-> None, last |-> None, volume |-> None, greeks |-> FALSE,
     failed |-> FALSE, left |-> FALSE]

\* float(x) if x and x > 0 else None
PositiveOrNone(x) == IF Truthy(x) /\ GtZero(x) THEN x ELSE None

\* One side of one strike, the gateway answering a: lines 596-627 (call) and
\* 629-660 (put).  int(nan) raises ValueError after bid, ask and last are set.
fetch_side(a) ==
    IF a.qualify = "raise" THEN [NoSide EXCEPT !.failed = TRUE]
    ELSE IF a.qualify = "empty" THEN NoSide
    ELSE IF a.tk.volume = NaN
         THEN [bid |-> PositiveOrNone(a.tk.bid), ask |-> PositiveOrNone(a.tk.ask),
               last |-> PositiveOrNone(a.tk.last), volume |-> None, greeks |-> FALSE,
               failed |-> TRUE, left |-> TRUE]
    ELSE [bid |-> PositiveOrNone(a.tk.bid), ask |-> PositiveOrNone(a.tk.ask),
          last |-> PositiveOrNone(a.tk.last),
          volume |-> IF Truthy(a.tk.volume) THEN PyInt(a.tk.volume) ELSE None,
          greeks |-> a.tk.greeks, failed |-> FALSE, left |-> FALSE]

\* The gateway's answer for the contract at `strike` with right `right`.
AnswerFor(a, strike, right) ==
    IF strike # a.bad THEN LiquidAnswer
    ELSE IF right = "C" THEN a.call ELSE a.put

\* strikes_data: lines 591-662.
strikes_data(selected, a) ==
    [i \in 1 .. Len(selected) |->
        [strike |-> selected[i],
         call |-> fetch_side(AnswerFor(a, selected[i], "C")),
         put |-> fetch_side(AnswerFor(a, selected[i], "P"))]]

\* self._request_market_data(stock) where the method exists: by the
\* specification (4.2) it returns the contract's ticker, or fails, and leaves
\* no subscription behind.
request_market_data(a) == IF a.fetcher = "raise" THEN "raise" ELSE "ticker"

\* get_option_chain from the call of _request_market_data on: lines 563-674.
\* The class defines no such method, and the lookup raises AttributeError.
get_option_chain(a) ==
    IF a.fetcher = "missing"
    THEN Raise("AttributeError", <<"qualifyContracts">>)
    ELSE IF request_market_data(a) = "raise"
    THEN Raise("error", <<"qualifyContracts">>)
    ELSE IF a.chains = << >>
    THEN Raise("No option chains found", <<"qualifyContracts", "reqSecDefOptParams">>)
    ELSE LET chain == chosen_chain(a.chains, a.exchange)
             price == underlying_price(a.underlying)
         IN  IF chain.strikes = {}
             THEN Raise("ValueError", <<"qualifyContracts", "reqSecDefOptParams">>)
             ELSE Returned([underlying_price |-> price,
                            strikes |-> strikes_data(
                                selected_strikes(chain.strikes, price, a.strike_range),
                                a)],
                           <<"qualifyContracts", "reqSecDefOptParams">>)

\* get_option_chain up to the await of _request_market_data: lines 555-563.
OptionChainRequest(t) ==
    /\ pc[t] = "direct"
    /\ running = t
    /\ op[t] = "get_option_chain"
    /\ ~ensure_connected_raises
    /\ out' = [out EXCEPT ![t] = [kind |-> "pending", value |-> "none",
                                  sent |-> <<"qualifyContracts">>]]
    /\ pc' = [pc EXCEPT ![t] = "waitchain"]
    /\ running' = NoOne
    /\ UNCHANGED <<envVars, clientVars, callVars, handlerVars, arg>>

\* The rest of get_option_chain; time.sleep() keeps the event loop, so it
\* runs to its end in one piece.
OptionChainBuild(t) ==
    /\ pc[t] = "waitchain"
    /\ running = NoOne
    /\ \E a \in ChainInputs :
         /\ arg' = [arg EXCEPT ![t] = a]
         /\ out' = [out EXCEPT ![t] = get_option_chain(a)]
    /\ pc' = [pc EXCEPT ![t] = "done"]
    /\ UNCHANGED <<envVars, clientVars, running, callVars, handlerVars>>

\* -------------------------------------------------- get_option_expirations

\* What reqSecDefOptParams returns for the symbol: the expirations of each
\* parameter set.  A date is its rank among the dates: the texts 'YYYYMMDD'
\* sort as their dates do.  Or the transport raises.
ExpirationInputs ==
    {[kind |-> "error"]} \cup
    {[kind |-> "expirations", chains |-> ch] :
        ch \in SeqsUpTo([expirations : SUBSET (1 .. MaxExpiry)], MaxChains)}

\* The loop of lines 691-692 over the chains still to read.
RECURSIVE expirations_update(_, _)
expirations_update(chains, expirations) ==
    IF chains = << >> THEN expirations
    ELSE expirations_update(Tail(chains), expirations \cup Head(chains).expirations)

\* A get_option_expirations that reads the first parameter set only.
get_option_expirations_first_chain(a) ==
    IF a.kind = "error" THEN Raise("error", <<"qualifyContracts">>)
    ELSE IF a.chains = << >>
    THEN Returned(<< >>, <<"qualifyContracts", "reqSecDefOptParams">>)
    ELSE Returned(sorted(Head(a.chains).expirations),
                  <<"qualifyContracts", "reqSecDefOptParams">>)

\* get_option_expirations after _ensure_connected(): lines 680-698.
get_option_expirations(a) ==
    IF a.kind = "error" THEN Raise("error", <<"qualifyContracts">>)
    ELSE IF a.chains = << >>
    THEN Returned(<< >>, <<"qualifyContracts", "reqSecDefOptParams">>)
    ELSE Returned(sorted(expirations_update(a.chains, {})),
                  <<"qualifyContracts", "reqSecDefOptParams">>)

GetOptionExpirations(t) ==
    /\ pc[t] = "direct"
    /\ running = t
    /\ op[t] = "get_option_expirations"
    /\ ~ensure_connected_raises
    /\ \E a \in ExpirationInputs :
         /\ arg' = [arg EXCEPT ![t] = a]
         /\ out' = [out EXCEPT ![t] = get_option_expirations(a)]
    /\ pc' = [pc EXCEPT ![t] = "done"]
    /\ running' = NoOne
    /\ UNCHANGED <<envVars, clientVars, callVars, handlerVars>>

\* ------------------------------------------------------------- SpecClient

\* The script's configuration names no account; it runs while the market is
\* closed.
InitClient ==
    /\ config_account = NoAccount
    /\ managed \in ManagedLists
    /\ gwUp \in BOOLEAN
    /\ ticker \in {tk \in SampleTickers : tk.marketPrice = NaN}
    /\ InitSession

NextClient ==
    \/ \E t \in Tasks, m \in ClientMethods : DirectCall(t, m)
    \/ \E t \in Tasks : ClientConnect(t)
    \/ \E t \in Tasks : ClientConnected(t)
    \/ \E t \in Tasks : ClientDisconnect(t)
    \/ \E t \in Tasks : ClientAlive(t)
    \/ \E t \in Tasks : AccessorNotConnected(t)
    \/ \E t \in Tasks : GetPortfolio(t)
    \/ \E t \in Tasks : GetOrders(t)
    \/ \E t \in Tasks : GetExecutions(t)
    \/ \E t \in Tasks : GetOptionExpirations(t)
    \/ \E t \in Tasks : AccessorPrice(t)
    \/ \E t \in Tasks : PriceFetch(t)
    \/ \E t \in Tasks : CancelOrder(t)
    \/ \E t \in Tasks : GetAccountSummary(t)
    \/ \E t \in Tasks : GetTrades(t)
    \/ \E t \in Tasks : OptionChainRequest(t)
    \/ \E t \in Tasks : OptionChainBuild(t)
    \/ \E t \in Tasks : Return(t)
    \/ \E h \in Handles : Drop(h)

SpecClient == InitClient /\ [][NextClient]_vars

\* -------------------------------------------------------- concurrent calls

\* The tools the concurrent requests call: one whose accessor has no await,
\* one whose accessor waits for market data.
ConcurrentOps == {"get_portfolio", "get_stock_price"}

\* A tool handler of server.py starts while another request is still being
\* served: the handlers are coroutines of one event loop, none takes a lock,
\* and each runs from one await to the next.
Arrive(t, o) ==
    /\ pc[Lifespan] = "serving"
    /\ running = NoOne
    /\ pc[t] = "idle"
    /\ running' = t
    /\ op' = [op EXCEPT ![t] = o]
    /\ pc' = [pc EXCEPT ![t] = "ensure"]
    /\ UNCHANGED <<dataVars, envVars, clientVars, callVars, called, touched, invoked,
                   result, quote>>

\* The server is configured with an account; the market is closed.
InitConcurrent ==
    /\ config_account \in ConfigAccounts
    /\ managed \in {m \in ManagedLists : Len(m) = 1}
    /\ gwUp \in BOOLEAN
    /\ ticker \in {tk \in SampleTickers : tk.marketPrice = NaN}
    /\ InitSession

NextConcurrent ==
    \/ LifespanStart
    \/ LifespanConnected
    \/ LifespanShutdown
    \/ \E t \in Tasks, o \in ConcurrentOps : Arrive(t, o)
    \/ \E t \in Tasks : EnsureAlive(t)
    \/ \E t \in Tasks : EnsureDead(t)
    \/ \E t \in Tasks : LoopAttempt(t)
    \/ \E t \in Tasks : LoopExit(t)
    \/ \E t \in Tasks : ConnectReturn(t)
    \/ \E t \in Tasks : BackoffDone(t)
    \/ \E t \in Tasks : HandlerNotConnected(t)
    \/ \E t \in Tasks : HandlerInvoke(t)
    \/ \E t \in Tasks : PriceRequest(t)
    \/ \E t \in Tasks : PriceFetch(t)
    \/ \E t \in Tasks : Return(t)
    \/ GatewayToggle
    \/ \E h \in Handles : Drop(h)

SpecConcurrent == InitConcurrent /\ [][NextConcurrent]_vars

\* ------------------------------------------------------------------ claims

\* The positions of a task inside ensure_connected().
InEnsure(t) == pc[t] \in {"ensure", "loop", "connecting", "sleep"}

\* C1: one ensure_connected call makes at most 3 connect attempts; once an
\* attempt has succeeded the call makes no further attempt, has returned True
\* and has left the counter at 0; the counter is always between 0 and 3.
C1_BoundedReconnect ==
    /\ reconnect_attempts \in 0 .. 3
    /\ \A t \in Tasks :
         /\ made[t] <= 3
         /\ succ[t] <= 1
         /\ succ[t] = 1 => ~InEnsure(t) /\ ret[t] = "true"
         /\ (succ[t] = 1 /\ pc[t] = "ensured") => reconnect_attempts = 0

\* C1's case: a call that succeeded on its third attempt has just returned.
C1_Witness ==
    \E t \in Tasks :
        pc[t] = "ensured" /\ ~alive0[t] /\ made[t] = 3 /\ succ[t] = 1

\* C2: an ensure_connected call on an alive session (flag true, transport
\* connected) returns True at once: no connect attempt, the counter at 0, the
\* handle, the account, the flag and the transports as they were.
C2_AlivePathFrame ==
    [][\A t \in Tasks :
          (pc[t] = "ensure" /\ connected /\ ib \in open /\ pc'[t] # "ensure")
          => /\ pc'[t] = "ensured"
             /\ ret'[t] = "true"
             /\ made'[t] = 0
             /\ reconnect_attempts' = 0
             /\ ib' = ib
             /\ nextIB' = nextIB
             /\ account' = account
             /\ connected' = connected
             /\ open' = open]_vars

\* C2's case: a call that found the session alive has returned.
C2_Witness ==
    \E t \in Tasks :
        pc[t] = "ensured" /\ alive0[t] /\ ret[t] = "true" /\ made[t] = 0

\* C3: every ensure_connected call that finds the session not alive makes at
\* least one connect attempt before it returns.
C3_DeadCallAttempts ==
    \A t \in Tasks : (pc[t] = "ensured" /\ ~alive0[t]) => made[t] >= 1

\* C4: an ensure_connected call none of whose attempts succeeds ends: it
\* never makes more than 3 attempts, it returns, and when it has returned it
\* has returned False with the flag False and the session not alive.
C4_FailedReconnectEnds ==
    /\ [](\A t \in Tasks :
            (called[t] /\ ~alive0[t] /\ succ[t] = 0)
            => /\ made[t] <= 3
               /\ pc[t] \in {"ensured", "done"}
                    => ret[t] = "false" /\ ~connected /\ ~(connected /\ ib \in open))
    /\ \A t \in Tasks : InEnsure(t) ~> (pc[t] = "ensured")

\* C4's case: a call has returned False after three failed attempts.
C4_Witness ==
    \E t \in Tasks :
        pc[t] = "ensured" /\ made[t] = 3 /\ succ[t] = 0 /\ ret[t] = "false"

\* C5 as stated: every tool, get_connection_status included, reads client
\* state or invokes an accessor only after ensure_connected returned True.
C5_EveryToolGuarded ==
    \A t \in Tasks : touched[t] => (called[t] /\ ret[t] = "true")

\* C5 amended: every tool but get_connection_status reads client state or
\* invokes an accessor only after ensure_connected returned True, and answers
\* the not-connected error, invoking nothing, when it returned False;
\* get_connection_status never calls ensure_connected and invokes no accessor.
C5_GuardedTools ==
    \A t \in Tasks :
        /\ op[t] \in GuardedOps =>
             /\ (touched[t] \/ invoked[t]) => (called[t] /\ ret[t] = "true")
             /\ (pc[t] = "done" /\ ret[t] = "false")
                  => (result[t] = "not_connected" /\ ~invoked[t] /\ ~touched[t])
             /\ pc[t] = "done" => called[t]
        /\ op[t] = StatusOp => (~called[t] /\ ~invoked[t] /\ result[t] # "not_connected")

\* C5's case: a guarded tool has answered not-connected after a failed
\* ensure_connected.
C5_Witness ==
    \E t \in Tasks :
        /\ pc[t] = "done" /\ op[t] \in GuardedOps
        /\ ret[t] = "false" /\ result[t] = "not_connected"

\* C6: whenever no price fetch is in progress, no market-data subscription
\* is open.
C6_NoSubscriptionLeft ==
    (\A t \in Tasks : pc[t] # "waitdata") => subs = {}

\* A value that is available and positive.
Positive(x) == x # NaN /\ x # None /\ x > 0

\* C7: the price of a returned quote is the first available positive value
\* of marketPrice(), last, close, the bid/ask midpoint, and 0.0 otherwise.
C7_PriceResolution ==
    \A t \in Tasks :
        (pc[t] = "done" /\ op[t] \in PriceOps /\ result[t] = "ok")
        => LET p == quote[t].price
           IN  IF Positive(ticker.marketPrice) THEN p = ticker.marketPrice
               ELSE IF Positive(ticker.last) THEN p = ticker.last
               ELSE IF Positive(ticker.close) THEN p = ticker.close
               ELSE IF Positive(ticker.bid) /\ Positive(ticker.ask)
                    THEN 2 * p = ticker.bid + ticker.ask
               ELSE p = 0

\* C8: bid, ask and volume of a quote returned by get_stock_price are each
\* absent or strictly positive.
C8_AbsentOrPositive ==
    \A t \in Tasks :
        (pc[t] = "done" /\ op[t] = "get_stock_price" /\ result[t] = "ok")
        => /\ quote[t].bid = None \/ quote[t].bid > 0
           /\ quote[t].ask = None \/ quote[t].ask > 0
           /\ quote[t].volume = None \/ quote[t].volume > 0

\* C9: connect() returns True or False, never an exception; when it returns
\* False the flag is False; when it returns True the flag is True, the
\* transport is open and an account is set.
C9_ConnectNeverRaises ==
    [][\A c \in Callers :
          (pc[c] = "connecting" /\ pc'[c] # "connecting")
          => /\ cret'[c] \in {"true", "false"}
             /\ cret'[c] = "false" => ~connected'
             /\ cret'[c] = "true"
                  => /\ connected'
                     /\ conn[c] \in open' /\ ib' \in open'
                     /\ account' # NoAccount /\ account' # ""]_vars

\* C9's case: the transport opened, the account could not be resolved and
\* connect() returned False.
C9_Witness ==
    \E c \in Callers : cret[c] = "false" /\ conn[c] \in open /\ ~connected

\* C10: after a successful connect the account is the configured one when one
\* is configured, else the first managed account; with none configured and
\* an empty managed list connect returns False.
C10_AccountResolution ==
    [][\A c \in Callers :
          (pc[c] = "connecting" /\ pc'[c] # "connecting")
          => LET configured == config_account # NoAccount /\ config_account # ""
             IN  /\ (~configured /\ managed = << >>) => cret'[c] = "false"
                 /\ cret'[c] = "true"
                      => account' = (IF configured THEN config_account
                                     ELSE Head(managed))]_vars

\* C10's case: a reconnect with no configured account took the first of two
\* managed accounts.
C10_Witness ==
    \E t \in Tasks :
        /\ cret[t] = "true" /\ config_account = NoAccount
        /\ Len(managed) = 2 /\ account = Head(managed)

\* C11: an accessor called while the flag is False fails at once with the
\* not-connected error: no call on the transport, no connect attempt, nothing
\* asked of the gateway, no change of the session.
C11_DisconnectedAccessorFails ==
    [][\A t \in Tasks :
          (pc[t] = "direct" /\ op[t] \in GuardedOps /\ ~connected /\ pc'[t] # "direct")
          => /\ pc'[t] = "done"
             /\ out'[t] = Raise(NotConnected, << >>)
             /\ arg'[t] = NoArg
             /\ made'[t] = made[t]
             /\ conn' = conn
             /\ clientVars' = clientVars]_vars

\* C11's case: get_option_chain, called on a disconnected session, has raised
\* the not-connected error.
C11_Witness ==
    \E t \in Tasks :
        /\ pc[t] = "done" /\ op[t] = "get_option_chain" /\ ~connected
        /\ out[t] = Raise(NotConnected, << >>)

\* C12: disconnect() leaves the flag False; on a session whose flag is False
\* it calls nothing on the transport and changes nothing; a second
\* disconnect() after any disconnect() changes nothing.
C12_DisconnectIdempotent ==
    [][\A t \in Tasks :
          (pc[t] = "direct" /\ op[t] = "disconnect" /\ pc'[t] # "direct")
          => /\ ~connected'
             /\ ~connected => (clientVars' = clientVars /\ out'[t].sent = << >>)
             /\ connected => (ib \notin open' /\ out'[t].sent = <<"disconnect">>)
             /\ disconnect(Session') =
                    [open |-> open', subs |-> subs', connected |-> FALSE, sent |-> << >>]
             /\ ib' = ib /\ account' = account
             /\ reconnect_attempts' = reconnect_attempts]_vars

\* C12's case: a disconnect() called on a session that an earlier
\* disconnect() had closed has returned without a call on the transport.
C12_Witness ==
    \E t \in Tasks :
        /\ pc[t] = "done" /\ op[t] = "disconnect"
        /\ account # NoAccount /\ ~connected /\ out[t].sent = << >>

\* C13: is_connection_alive() returns and never raises: False when the flag
\* is False, False when the transport's probe raises, else what the transport
\* reports; it changes nothing.
C13_AliveProbeTotal ==
    [][\A t \in Tasks :
          (pc[t] = "direct" /\ op[t] = "is_connection_alive" /\ pc'[t] # "direct")
          => /\ out'[t].kind = "return"
             /\ out'[t].value =
                    (IF ~connected THEN "false"
                     ELSE IF arg'[t].probe = "raise" THEN "false"
                     ELSE IF ib \in open THEN "true" ELSE "false")
             /\ clientVars' = clientVars]_vars

\* C13's case: the flag is True, the probe raised and the call returned False.
C13_Witness ==
    \E t \in Tasks :
        /\ pc[t] = "done" /\ op[t] = "is_connection_alive" /\ connected
        /\ arg[t].probe = "raise" /\ out[t] = Returned("false", <<"isConnected">>)

\* C14: on a connected session cancel_order(id) returns False, without
\* raising and without a cancel request, when no open order has the id; else
\* it returns True and sends one cancel request, for the first open order
\* with the id, and for no other order.
C14_CancelOrder ==
    \A t \in Tasks :
        (pc[t] = "done" /\ op[t] = "cancel_order" /\ arg[t].kind = "cancel")
        => LET tr == arg[t].trades
               hits == {i \in 1 .. Len(tr) : tr[i] = arg[t].order_id}
           IN  /\ out[t].kind = "return"
               /\ hits = {} =>
                    /\ out[t].value = "False"
                    /\ out[t].cancelled = << >>
                    /\ out[t].sent = <<"openTrades">>
               /\ hits # {} =>
                    /\ out[t].value = "True"
                    /\ out[t].cancelled = <<CHOOSE i \in hits : \A j \in hits : i <= j>>
                    /\ out[t].sent = <<"openTrades", "cancelOrder">>

\* C14's case: two open orders carry the id and the second open trade, the
\* first of the two, was cancelled.
C14_Witness ==
    \E t \in Tasks :
        /\ pc[t] = "done" /\ op[t] = "cancel_order" /\ arg[t].kind = "cancel"
        /\ arg[t].trades = <<1, 2, 2>> /\ arg[t].order_id = 2
        /\ out[t].value = "True" /\ out[t].cancelled = <<2>>

\* A get_option_chain call of task t has returned a chain.
ChainReturned(t) == pc[t] = "done" /\ op[t] = "get_option_chain" /\ out[t].kind = "return"

\* The sorted strike list that call worked on, and the underlying price.
AllStrikes(t) == sorted(chosen_chain(arg[t].chains, arg[t].exchange).strikes)

PriceOf(t) == underlying_price(arg[t].underlying)

\* The strikes of the chain it returned.
StrikesOf(t) == [i \in 1 .. Len(out[t].value.strikes) |-> out[t].value.strikes[i].strike]

Distance(s, p, i) == IF s[i + 1] >= p THEN s[i + 1] - p ELSE p - s[i + 1]

\* The first position (from 0) of a strike of s at minimal distance from p.
Atm(s, p) ==
    CHOOSE i \in 0 .. Len(s) - 1 :
        /\ \A j \in 0 .. Len(s) - 1 : Distance(s, p, i) <= Distance(s, p, j)
        /\ \A j \in 0 .. i - 1 : Distance(s, p, j) > Distance(s, p, i)

C18_FailedSideAbsent ==
    \A t \in Tasks :
        ChainReturned(t)
        => LET ks == out[t].value.strikes
               Absent(side) ==
                   /\ side.bid = None /\ side.ask = None /\ side.last = None
                   /\ side.volume = None /\ ~side.greeks
           IN  \A i \in 1 .. Len(ks) :
                   /\ ks[i].call.failed => Absent(ks[i].call)
                   /\ ks[i].put.failed => Absent(ks[i].put)
                   /\ AnswerFor(arg[t], ks[i].strike, "C") = LiquidAnswer
                        => ~ks[i].call.failed /\ ks[i].call.bid # None
                   /\ AnswerFor(arg[t], ks[i].strike, "P") = LiquidAnswer
                        => ~ks[i].put.failed /\ ks[i].put.bid # None

\* The field of the summary and the tag it is read from.
SummaryFields ==
    {[field |-> "net_liquidation", tag |-> "NetLiquidation"],
     [field |-> "total_cash_value", tag |-> "TotalCashValue"],
     [field |-> "settled_cash", tag |-> "SettledCash"],
     [field |-> "accrued_cash", tag |-> "AccruedCash"],
     [field |-> "buying_power", tag |-> "BuyingPower"],
     [field |-> "equity_with_loan_value", tag |-> "EquityWithLoanValue"],
     [field |-> "previous_day_equity_with_loan_value",
      tag |-> "PreviousDayEquityWithLoanValue"],
     [field |-> "gross_position_value", tag |-> "GrossPositionValue"],
     [field |-> "reg_t_margin", tag |-> "RegTMargin"],
     [field |-> "sma", tag |-> "SMA"],
     [field |-> "init_margin_req", tag |-> "InitMarginReq"],
     [field |-> "maint_margin_req", tag |-> "MaintMarginReq"],
     [field |-> "available_funds", tag |-> "AvailableFunds"],
     [field |-> "excess_liquidity", tag |-> "ExcessLiquidity"]}

\* C19: get_account_summary returns, never raises; each numeric field is the
\* parsed value of its tag's (last) entry with a numeric value, 0.0 when
\* there is none; entries with a non-numeric value are skipped.
C19_AccountSummary ==
    \A t \in Tasks :
        (pc[t] = "done" /\ op[t] = "get_account_summary" /\ arg[t].kind = "values")
        => LET items == arg[t].items
           IN  /\ out[t].kind = "return"
               /\ \A p \in SummaryFields :
                    LET idx == {i \in 1 .. Len(items) :
                                   items[i].tag = p.tag /\ IsFloat(items[i].value)}
                        last == CHOOSE i \in idx : \A j \in idx : j <= i
                    IN  out[t].value[p.field] =
                            (IF idx = {} THEN 0 ELSE PyFloat(items[last].value))

\* C19's case: the account values of the specification's example.
C19_Witness ==
    \E t \in Tasks :
        /\ pc[t] = "done" /\ op[t] = "get_account_summary" /\ arg[t].kind = "values"
        /\ arg[t].items = <<[tag |-> "NetLiquidation", value |-> "125430.55"],
                            [tag |-> "Currency", value |-> "USD"],
                            [tag |-> "AvailableFunds", value |-> "98210.10"]>>
        /\ out[t].kind = "return"
        /\ out[t].value.net_liquidation = 12543055
        /\ out[t].value.available_funds = 9821010
        /\ out[t].value.buying_power = 0

\* The sum over the fills of the values their commission reports give.
RECURSIVE ReportedSum(_, _)
ReportedSum(fills, field) ==
    IF fills = << >> THEN 0
    ELSE LET f == Head(fills)
             v == IF f.report /\ f[field] # None THEN f[field] ELSE 0
         IN  v + ReportedSum(Tail(fills), field)

\* C20: a Trade's commission and realized_pnl are the sums over its fills of
\* the reported commission and realized PnL, a fill without a commission
\* report or without the value adding 0; with no fill both are 0.0.
C20_TradeTotals ==
    \A t \in Tasks :
        (pc[t] = "done" /\ op[t] = "get_trades" /\ arg[t].kind = "trades")
        => /\ out[t].kind = "return"
           /\ Len(out[t].value) = Len(arg[t].trades)
           /\ \A i \in 1 .. Len(arg[t].trades) :
                LET fills == arg[t].trades[i].fills
                IN  /\ out[t].value[i].commission = ReportedSum(fills, "commission")
                    /\ out[t].value[i].realized_pnl = ReportedSum(fills, "realizedPNL")
                    /\ fills = << >> =>
                         /\ out[t].value[i].commission = 0
                         /\ out[t].value[i].realized_pnl = 0

\* C20's case: a trade of three fills, one of them without a commission
\* report, whose commissions add up to two reported ones.
C20_Witness ==
    \E t \in Tasks :
        /\ pc[t] = "done" /\ op[t] = "get_trades" /\ arg[t].kind = "trades"
        /\ Len(arg[t].trades) = 1
        /\ Len(arg[t].trades[1].fills) = 3
        /\ \E i \in 1 .. 3 : ~arg[t].trades[1].fills[i].report
        /\ out[t].value[1].commission = 6 * Scale
        /\ out[t].value[1].realized_pnl = 3 * Scale

\* The trades get_orders has converted, in the order of the Orders returned.
OrdersRead(t) ==
    IF arg[t].include_inactive THEN arg[t].trades ELSE openTrades(arg[t].trades)

\* get_orders has returned its Orders.
OrdersReturned(t) ==
    pc[t] = "done" /\ op[t] = "get_orders" /\ arg[t].kind = "orders"
    /\ out[t].kind = "return"

\* C21: an Order's remainingQuantity is the remaining quantity the broker has
\* reported whenever it has reported one, and the order's totalQuantity only
\* when the broker has reported none yet.
C21_RemainingAsReported ==
    \A t \in Tasks :
        OrdersReturned(t)
        => \A i \in 1 .. Len(out[t].value) :
               LET b == OrdersRead(t)[i]
               IN  out[t].value[i].remaining_quantity =
                       IF Reported(b) THEN b.orderStatus.remaining
                       ELSE b.order.totalQuantity

\* The records an accessor has produced, and the broker contract of each.
Produced(t) ==
    IF op[t] = "get_portfolio" THEN out[t].value.positions ELSE out[t].value

ContractsRead(t) ==
    CASE op[t] = "get_portfolio" ->
             [i \in 1 .. Len(arg[t].items) |-> arg[t].items[i].contract]
      [] op[t] = "get_orders" ->
             [i \in 1 .. Len(OrdersRead(t)) |-> OrdersRead(t)[i].contract]
      [] op[t] = "get_trades" ->
             [i \in 1 .. Len(arg[t].trades) |-> arg[t].trades[i].contract]
      [] op[t] = "get_executions" ->
             [i \in 1 .. Len(arg[t].fills) |-> arg[t].fills[i].contract]

C23_ExpirationsUnion ==
    \A t \in Tasks :
        (pc[t] = "done" /\ op[t] = "get_option_expirations"
         /\ arg[t].kind = "expirations")
        => /\ out[t].kind = "return"
           /\ LET v == out[t].value
                  ch == arg[t].chains
              IN  /\ {v[i] : i \in 1 .. Len(v)} =
                         UNION {ch[j].expirations : j \in 1 .. Len(ch)}
                  /\ \A i, j \in 1 .. Len(v) : i < j => v[i] < v[j]
                  /\ ch = << >> => v = << >>

\* C23's case: two parameter sets that share one expiration and differ in
\* the others, returned as one list of three.
C23_Witness ==
    \E t \in Tasks :
        /\ pc[t] = "done" /\ op[t] = "get_option_expirations"
        /\ arg[t].kind = "expirations"
        /\ Len(arg[t].chains) = 2
        /\ arg[t].chains[1].expirations = {2, 3}
        /\ arg[t].chains[2].expirations = {1, 2}
        /\ out[t].value = <<1, 2, 3>>

\* C27: on a connected session, when the gateway prices the underlying and
\* returns a parameter set with strikes, get_option_chain obtains the
\* underlying's price and returns a chain; it fails with the no-chain error
\* only when the gateway returns no parameter set.
C27_ChainWhenPriced ==
    \A t \in Tasks :
        (pc[t] = "done" /\ op[t] = "get_option_chain" /\ arg[t].kind = "chain")
        => /\ (/\ arg[t].fetcher # "raise"
               /\ GtZero(underlying_price(arg[t].underlying))
               /\ \E j \in 1 .. Len(arg[t].chains) : arg[t].chains[j].strikes # {})
              => /\ out[t].kind = "return"
                 /\ out[t].value.underlying_price = underlying_price(arg[t].underlying)
           /\ (out[t].kind = "raise" /\ out[t].value = "No option chains found")
              => arg[t].chains = << >>

\* C28: for a broker order whose filled and remaining quantities add up to
\* its totalQuantity, the Order of get_orders has filledQuantity +
\* remainingQuantity = totalQuantity, and its remainingQuantity is that of the
\* Trade get_trades makes of the same record.
C28_QuantitiesAddUp ==
    \A t \in Tasks :
        OrdersReturned(t)
        => \A i \in 1 .. Len(out[t].value) :
               LET b == OrdersRead(t)[i]
                   order == out[t].value[i]
               IN  b.orderStatus.filled + b.orderStatus.remaining = b.order.totalQuantity
                   => /\ order.filled_quantity + order.remaining_quantity =
                             order.total_quantity
                      /\ order.remaining_quantity =
                             convert_to_trade(b).remaining_quantity

\* C25: of two requests issued concurrently at most one is in conversation
\* with the gateway: while one operation is suspended in its market-data
\* wait or in a reconnect's connect or backoff, the other has not begun to
\* act on the session or is over.
C25_OneConversation ==
    \A t, u \in Tasks :
        (t # u /\ pc[t] \in {"waitdata", "connecting", "sleep"})
        => pc[u] \in {"idle", "ensure", "status", "done"}

\* C30: under every interleaving of two concurrent ensure_connected() calls,
\* a call that returns True leaves the session's current handle connected
\* (is_connection_alive() is true at that moment), and no reconnect attempt
\* disconnects or replaces a handle the other call has connected.
C30_ConcurrentReconnects ==
    [][\A t \in Tasks :
          /\ (pc[t] # "ensured" /\ pc'[t] = "ensured" /\ ret'[t] = "true")
             => (connected' /\ ib' \in open')
          /\ (pc[t] = "loop" /\ pc'[t] = "connecting")
             => ~(connected /\ ib \in open)]_vars

\* C24: every reconnect attempt disconnects and discards the handle the
\* session had before it creates a new one, never created before, and
\* connects on that new handle alone; no subscription of the old handle is
\* left; a failed attempt is followed by the backoff wait, after which alone
\* the loop goes on; a successful one leaves the new handle the session's.
C24_ReconnectReplacesHandle ==
    [][\A t \in Tasks :
          /\ (pc[t] = "loop" /\ pc'[t] = "connecting")
             => /\ ib \notin open'
                /\ ib' # ib /\ ib' = nextIB /\ ib' \notin open
                /\ conn'[t] = ib'
                /\ \A x \in subs' : x[1] # ib
          /\ (pc[t] # "connecting" /\ pc'[t] = "connecting") => pc[t] = "loop"
          /\ (pc[t] = "connecting" /\ pc'[t] # "connecting")
             => /\ open' \subseteq open \cup {ib'}
                /\ ib' = ib /\ ib = conn[t]
                /\ IF cret'[t] = "true"
                   THEN pc'[t] = "ensured" /\ ib' \in open'
                   ELSE pc'[t] = "sleep"
          /\ (pc[t] = "sleep" /\ pc'[t] # "sleep")
             => pc'[t] = "loop" /\ clientVars' = clientVars]_vars

\* C24's case: after a failed attempt and its backoff, a second attempt is
\* under way on a second new handle, the first one discarded.
C24_Witness ==
    \E t \in Tasks :
        /\ pc[t] = "connecting" /\ made[t] = 2
        /\ ib = conn[t] /\ ib >= 2
        /\ cret[t] = "false"
        /\ open = {}

\* C26: the account changes only when a connect succeeds, and no accessor
\* call, successful or failing, no is_connection_alive() call and no
\* ensure_connected() call on an alive session changes the account, the
\* connected flag or the transport handle.
C26_SessionOwnedByConnect ==
    [][/\ account' # account
          => \E c \in Callers :
                 pc[c] = "connecting" /\ pc'[c] # "connecting" /\ cret'[c] = "true"
       /\ \A t \in Tasks :
            (\/ pc[t] = "ensured" /\ pc'[t] # "ensured"
             \/ pc[t] = "waitdata" /\ pc'[t] # "waitdata"
             \/ pc[t] = "status" /\ pc'[t] # "status"
             \/ pc[t] = "ensure" /\ is_connection_alive /\ pc'[t] # "ensure")
            => account' = account /\ connected' = connected /\ ib' = ib]_vars

\* C26's case: on a connected session with its account, a market-data call
\* has failed, and the session is as the connect left it.
C26_Witness ==
    \E t \in Tasks :
        /\ pc[t] = "done" /\ op[t] = "get_stock_price" /\ result[t] = "error"
        /\ alive0[t]
        /\ connected /\ ib \in open /\ account # NoAccount

\* C29: a session that is Disconnected holds no open gateway connection:
\* when connect() has returned false and when disconnect() has returned, the
\* session's transport handle is not connected.
C29_DisconnectedIsClosed ==
    \A t \in Tasks :
        (/\ pc[t] = "done"
         /\ \/ op[t] = "connect" /\ out[t] = Returned("false", <<"connectAsync">>)
            \/ op[t] = "disconnect")
        => ib \notin open

====
